---------------------------- MODULE Spec2Model ----------------------------
(***************************************************************************)
(* The user controller of the REST backend (users-controller.js) as a      *)
(* state machine.  Each request handler is an async function: the code      *)
(* between two awaits runs without interruption, and every await of a      *)
(* storage or hashing operation is a point where other requests may run.   *)
(* A handler is therefore a sequence of steps; a step performs the awaited *)
(* operation and then the handler's code up to its next await (or to its   *)
(* response).                                                              *)
(*                                                                         *)
(* A field of a request body is <<>> when it is absent (undefined) and     *)
(* <<s>> when it is the string s.                                          *)
(***************************************************************************)
EXTENDS Naturals, Sequences, FiniteSets

\* ------------------------------------------------------------- bounds
\* The number of users ever registered (ids are never reused).
MaxUsers == 2

\* ------------------------------------------------------------- constants
MinPasswordLength == 8
DefaultOffset == 0
DefaultLimit == 10

\* Two workers: enough for one request to overlap another.
Procs == {"w1", "w2"}
Ids == 1..MaxUsers
Salts == {"s1", "s2"}

Some(s) == <<s>>
Undefined == <<>>

Emails == {"a@x", "b@x"}
Names == {"Ann"}
EmailFields == {Undefined} \cup {Some(e) : e \in Emails}
NameFields == {Some("")} \cup {Some(n) : n \in Names}
PasswordFields ==
    {Undefined, Some(""), Some("short"), Some("longpass"), Some("otherpass")}
ConfirmFields == {Undefined, Some("short"), Some("longpass"), Some("otherpass")}
LoginPasswordFields == {Undefined, Some("longpass"), Some("otherpass")}
QueryFields == {Undefined, Some("1")}

\* ------------------------------------------------------------- values
NoHash == [salt |-> "", digest |-> <<>>]
NoUser == [id |-> 0, email |-> "", full_name |-> "", password |-> NoHash]
NoError == [kind |-> "", message |-> ""]
NoBody == [email |-> Undefined, password |-> Undefined,
           full_name |-> Undefined, confirm_password |-> Undefined]
NoQuery == [offset |-> Undefined, limit |-> Undefined]
NoRequest == [op |-> "", id |-> 0, body |-> NoBody, query |-> NoQuery]
NoOutcome == [responses |-> 0, nexts |-> 0, rejected |-> 0, status |-> 0,
              message |-> "", error |-> NoError, data |-> <<>>]

errorResponder(kind, message) == [kind |-> kind, message |-> message]
StorageError == [kind |-> "Error", message |-> "storage failure"]
HashError == [kind |-> "Error", message |-> "hash failure"]
TypeError ==
    [kind |-> "TypeError",
     message |-> "Cannot read properties of undefined (reading 'length')"]

VARIABLES
    users,           \* the user collection: id -> record
    nextId,          \* the id the store gives the next inserted record
    pc,              \* per worker: "idle", the await it is suspended at, or "done"
    req,             \* per worker: the request being (or last) handled
    user,            \* per worker: the handler's local `user`
    hashedPassword,  \* per worker: the handler's local `hashedPassword`
    outcome,         \* per worker: what the invocation did with response and next
    serial,          \* TRUE when requests are handled one at a time
    registered,      \* history: stored id -> the email and password it was registered with
    lastDeleted      \* history: the id whose successful deletion has since been
                     \* followed by nothing but deleteUser requests for it (0: none)

vars == <<users, nextId, pc, req, user, hashedPassword, outcome, serial,
          registered, lastDeleted>>

\* ------------------------------------------------------------- JavaScript
\* !x for a body field: undefined and the empty string are falsy.
Falsy(f) == f = Undefined \/ f = Some("")

\* parseInt(x, 10): <<n>> for a decimal string, <<>> (NaN) otherwise.
parseInt(f) ==
    IF f = Undefined THEN <<>>
    ELSE CASE f[1] = "0" -> <<0>>
           [] f[1] = "1" -> <<1>>
           [] f[1] = "2" -> <<2>>
           [] OTHER -> <<>>

\* a || d for a number a: NaN and 0 are falsy.
OrDefault(n, d) == IF n = <<>> \/ n = <<0>> THEN d ELSE n[1]

\* ------------------------------------------------------------- password utils
hashPassword(password, salt) ==
    [salt |-> salt, digest |-> <<salt, password>>]

passwordMatched(password, hash) ==
    hash.digest = <<hash.salt, password>>

\* ------------------------------------------------------------- service / repository
Min(S) == CHOOSE x \in S : \A y \in S : x <= y

HoldersOf(store, email) == {i \in DOMAIN store : store[i].email = email}

getUserByEmail(store, email) ==
    IF HoldersOf(store, email) = {} THEN NoUser
    ELSE store[Min(HoldersOf(store, email))]

emailExists(store, email) == getUserByEmail(store, email) # NoUser

getUserById(store, id) == IF id \in DOMAIN store THEN store[id] ELSE NoUser

RECURSIVE Ordered(_, _)
Ordered(store, S) ==
    IF S = {} THEN <<>>
    ELSE <<Min(S)>> \o Ordered(store, S \ {Min(S)})

Page(store, offset, limit) ==
    LET all == Ordered(store, DOMAIN store)
    IN  SubSeq(all, offset + 1,
               IF offset + limit < Len(all) THEN offset + limit ELSE Len(all))

Inserted(store, id, email, hash, fullName) ==
    [i \in DOMAIN store \cup {id} |->
        IF i = id
        THEN [id |-> id, email |-> email, full_name |-> fullName, password |-> hash]
        ELSE store[i]]

Updated(store, id, email, fullName) ==
    [store EXCEPT ![id].email = email, ![id].full_name = fullName]

Removed(store, id) == [i \in DOMAIN store \ {id} |-> store[i]]

\* ------------------------------------------------------------- handler ends
Ready(p) == pc[p] \in {"idle", "done"}

\* No other request is being handled or has been handled by another worker.
Alone(p) == \A q \in Procs \ {p} : pc[q] = "idle"

\* The outcome record of the running invocation: fresh when it is just entered.
Base(p) == IF Ready(p) THEN NoOutcome ELSE outcome[p]

\* The handler reaches an await: it resumes at label.
Await(p, label) ==
    /\ pc' = [pc EXCEPT ![p] = label]
    /\ outcome' = [outcome EXCEPT ![p] = Base(p)]
    /\ lastDeleted' = lastDeleted

End(p, o) ==
    /\ pc' = [pc EXCEPT ![p] = "done"]
    /\ outcome' = [outcome EXCEPT ![p] = o]
    /\ lastDeleted' = IF ~Ready(p) /\ req[p].op = "deleteUser"
                         /\ (o.status = 200 \/ req[p].id = lastDeleted)
                      THEN req[p].id ELSE 0

\* response.status(status).json(...)
Respond(p, status, message, data) ==
    End(p, [Base(p) EXCEPT !.responses = @ + 1, !.status = status,
                           !.message = message, !.data = data])

\* next(error)
Forward(p, error) ==
    End(p, [Base(p) EXCEPT !.nexts = @ + 1, !.error = error])

\* an exception leaves the async function: the promise it returned is rejected
Reject(p, error) ==
    End(p, [Base(p) EXCEPT !.rejected = @ + 1, !.error = error])

\* a request enters handler op
Enter(p, op, id, body, query) ==
    /\ Ready(p)
    /\ serial => Alone(p)
    /\ req' = [req EXCEPT ![p] = [op |-> op, id |-> id, body |-> body, query |-> query]]
    /\ user' = [user EXCEPT ![p] = NoUser]
    /\ hashedPassword' = [hashedPassword EXCEPT ![p] = NoHash]

At(p, op, label) == pc[p] = label /\ req[p].op = op

Locals == <<req, user, hashedPassword>>

\* ------------------------------------------------------------- getUsers
getUsers(p, query) ==
    /\ Enter(p, "getUsers", 0, NoBody, query)
    /\ Await(p, "getUsers")
    /\ UNCHANGED <<users, nextId, serial, registered>>

getUsers_resume(p) ==
    /\ At(p, "getUsers", "getUsers")
    /\ \/ Forward(p, StorageError)
       \/ Respond(p, 200, "",
                  Page(users, OrDefault(parseInt(req[p].query.offset), DefaultOffset),
                       OrDefault(parseInt(req[p].query.limit), DefaultLimit)))
    /\ UNCHANGED <<users, nextId, serial, registered, Locals>>

\* ------------------------------------------------------------- getUser
getUser(p, id) ==
    /\ Enter(p, "getUser", id, NoBody, NoQuery)
    /\ Await(p, "getUser")
    /\ UNCHANGED <<users, nextId, serial, registered>>

getUser_resume(p) ==
    /\ At(p, "getUser", "getUser")
    /\ \/ Forward(p, StorageError)
       \/ IF getUserById(users, req[p].id) = NoUser
          THEN Forward(p, errorResponder("UNPROCESSABLE_ENTITY", "User not found"))
          ELSE Respond(p, 200, "", <<req[p].id>>)
    /\ UNCHANGED <<users, nextId, serial, registered, Locals>>

\* ------------------------------------------------------------- createUser
createUser(p, body) ==
    /\ nextId <= MaxUsers
    /\ Enter(p, "createUser", 0, body, NoQuery)
    /\ IF Falsy(body.email)
       THEN Forward(p, errorResponder("VALIDATION_ERROR", "Email is required"))
       ELSE IF Falsy(body.full_name)
       THEN Forward(p, errorResponder("VALIDATION_ERROR", "Full name is required"))
       ELSE Await(p, "emailExists")
    /\ UNCHANGED <<users, nextId, serial, registered>>

\* Variant: the password checks moved in front of the uniqueness check.
createUser_checks_PasswordFirst(p, exists) ==
    LET password == req[p].body.password
        confirmPassword == req[p].body.confirm_password
    IN  IF password = Undefined
        THEN Forward(p, TypeError)
        ELSE IF Len(password[1]) < MinPasswordLength
        THEN Forward(p, errorResponder("VALIDATION_ERROR",
                            "Password must be at least 8 characters long"))
        ELSE IF password # confirmPassword
        THEN Forward(p, errorResponder("VALIDATION_ERROR",
                            "Password and confirm password do not match"))
        ELSE IF exists
        THEN Forward(p, errorResponder("EMAIL_ALREADY_TAKEN", "Email already exists"))
        ELSE Await(p, "hashPassword")

\* The checks between the await of emailExists and the await of hashPassword.
createUser_checks(p, exists) ==
    LET password == req[p].body.password
        confirmPassword == req[p].body.confirm_password
    IN  IF exists
        THEN Forward(p, errorResponder("EMAIL_ALREADY_TAKEN", "Email already exists"))
        ELSE IF password = Undefined
        THEN Forward(p, TypeError)
        ELSE IF Len(password[1]) < MinPasswordLength
        THEN Forward(p, errorResponder("VALIDATION_ERROR",
                            "Password must be at least 8 characters long"))
        ELSE IF password # confirmPassword
        THEN Forward(p, errorResponder("VALIDATION_ERROR",
                            "Password and confirm password do not match"))
        ELSE Await(p, "hashPassword")

createUser_emailExists(p) ==
    /\ At(p, "createUser", "emailExists")
    /\ \/ Forward(p, StorageError)
       \/ createUser_checks(p, emailExists(users, req[p].body.email[1]))
    /\ UNCHANGED <<users, nextId, serial, registered, Locals>>

createUser_hashPassword(p) ==
    /\ At(p, "createUser", "hashPassword")
    /\ \/ /\ Forward(p, HashError)
          /\ UNCHANGED hashedPassword
       \/ \E salt \in Salts :
            /\ hashedPassword' = [hashedPassword EXCEPT
                                    ![p] = hashPassword(req[p].body.password[1], salt)]
            /\ Await(p, "createUser")
    /\ UNCHANGED <<users, nextId, serial, registered, req, user>>

\* Variant: the write skips a registration whose email is held by now, and
\* still reports success.
createUser_persist_IfAbsent(p) ==
    /\ At(p, "createUser", "createUser")
    /\ IF emailExists(users, req[p].body.email[1])
       THEN /\ Respond(p, 201, "User created successfully", <<>>)
            /\ UNCHANGED <<users, nextId, registered>>
       ELSE /\ users' = Inserted(users, nextId, req[p].body.email[1],
                                 hashedPassword[p], req[p].body.full_name[1])
            /\ nextId' = nextId + 1
            /\ registered' = [i \in DOMAIN registered \cup {nextId} |->
                                 IF i = nextId
                                 THEN [email |-> req[p].body.email[1],
                                       password |-> req[p].body.password[1]]
                                 ELSE registered[i]]
            /\ Respond(p, 201, "User created successfully", <<>>)
    /\ UNCHANGED <<serial, Locals>>

createUser_persist(p) ==
    /\ At(p, "createUser", "createUser")
    /\ \/ /\ Forward(p, StorageError)
          /\ UNCHANGED <<users, nextId, registered>>
       \/ /\ Forward(p, errorResponder("UNPROCESSABLE_ENTITY", "Failed to create user"))
          /\ UNCHANGED <<users, nextId, registered>>
       \/ /\ users' = Inserted(users, nextId, req[p].body.email[1],
                               hashedPassword[p], req[p].body.full_name[1])
          /\ nextId' = nextId + 1
          /\ registered' = [i \in DOMAIN registered \cup {nextId} |->
                               IF i = nextId
                               THEN [email |-> req[p].body.email[1],
                                     password |-> req[p].body.password[1]]
                               ELSE registered[i]]
          /\ Respond(p, 201, "User created successfully", <<>>)
    /\ UNCHANGED <<serial, Locals>>

\* ------------------------------------------------------------- updateUser
updateUser(p, id, body) ==
    /\ Enter(p, "updateUser", id, body, NoQuery)
    /\ Await(p, "getUser")
    /\ UNCHANGED <<users, nextId, serial, registered>>

\* Variant: the uniqueness check is left out.
updateUser_checks_NoUniqueness(p, found) ==
    LET email == req[p].body.email
        fullName == req[p].body.full_name
    IN  IF found = NoUser
        THEN Forward(p, errorResponder("UNPROCESSABLE_ENTITY", "User not found"))
        ELSE IF Falsy(email)
        THEN Forward(p, errorResponder("VALIDATION_ERROR", "Email is required"))
        ELSE IF Falsy(fullName)
        THEN Forward(p, errorResponder("VALIDATION_ERROR", "Full name is required"))
        ELSE Await(p, "updateUser")

\* Variant: the uniqueness check is made even when the email is unchanged.
updateUser_checks_AlwaysUnique(p, found) ==
    LET email == req[p].body.email
        fullName == req[p].body.full_name
    IN  IF found = NoUser
        THEN Forward(p, errorResponder("UNPROCESSABLE_ENTITY", "User not found"))
        ELSE IF Falsy(email)
        THEN Forward(p, errorResponder("VALIDATION_ERROR", "Email is required"))
        ELSE IF Falsy(fullName)
        THEN Forward(p, errorResponder("VALIDATION_ERROR", "Full name is required"))
        ELSE Await(p, "emailExists")

updateUser_checks(p, found) ==
    LET email == req[p].body.email
        fullName == req[p].body.full_name
    IN  IF found = NoUser
        THEN Forward(p, errorResponder("UNPROCESSABLE_ENTITY", "User not found"))
        ELSE IF Falsy(email)
        THEN Forward(p, errorResponder("VALIDATION_ERROR", "Email is required"))
        ELSE IF Falsy(fullName)
        THEN Forward(p, errorResponder("VALIDATION_ERROR", "Full name is required"))
        ELSE IF email[1] # found.email
        THEN Await(p, "emailExists")
        ELSE Await(p, "updateUser")

updateUser_getUser(p) ==
    /\ At(p, "updateUser", "getUser")
    /\ \/ /\ Forward(p, StorageError)
          /\ UNCHANGED user
       \/ /\ user' = [user EXCEPT ![p] = getUserById(users, req[p].id)]
          /\ updateUser_checks(p, getUserById(users, req[p].id))
    /\ UNCHANGED <<users, nextId, serial, registered, req, hashedPassword>>

updateUser_emailExists(p) ==
    /\ At(p, "updateUser", "emailExists")
    /\ \/ Forward(p, StorageError)
       \/ IF emailExists(users, req[p].body.email[1])
          THEN Forward(p, errorResponder("EMAIL_ALREADY_TAKEN", "Email already exists"))
          ELSE Await(p, "updateUser")
    /\ UNCHANGED <<users, nextId, serial, registered, Locals>>

updateUser_persist(p) ==
    /\ At(p, "updateUser", "updateUser")
    /\ \/ /\ Forward(p, StorageError)
          /\ UNCHANGED users
       \/ IF req[p].id \in DOMAIN users
          THEN /\ users' = Updated(users, req[p].id, req[p].body.email[1],
                                   req[p].body.full_name[1])
               /\ Respond(p, 200, "User updated successfully", <<>>)
          ELSE /\ Forward(p, errorResponder("UNPROCESSABLE_ENTITY",
                                            "Failed to update user"))
               /\ UNCHANGED users
    /\ UNCHANGED <<nextId, serial, registered, Locals>>

\* ------------------------------------------------------------- loginUser
loginUser(p, body) ==
    /\ Enter(p, "loginUser", 0, body, NoQuery)
    /\ IF Falsy(body.email) \/ Falsy(body.password)
       THEN Forward(p, errorResponder("VALIDATION_ERROR",
                                      "Email and password are required"))
       ELSE Await(p, "getUserByEmail")
    /\ UNCHANGED <<users, nextId, serial, registered>>

\* Variant: an unknown email gets a message of its own.
loginUser_getUserByEmail_OwnMessage(p) ==
    /\ At(p, "loginUser", "getUserByEmail")
    /\ \/ /\ Reject(p, StorageError)
          /\ UNCHANGED user
       \/ /\ user' = [user EXCEPT ![p] = getUserByEmail(users, req[p].body.email[1])]
          /\ IF getUserByEmail(users, req[p].body.email[1]) = NoUser
             THEN Forward(p, errorResponder("UNPROCESSABLE_ENTITY", "User not found"))
             ELSE Await(p, "passwordMatched")
    /\ UNCHANGED <<users, nextId, serial, registered, req, hashedPassword>>

loginUser_getUserByEmail(p) ==
    /\ At(p, "loginUser", "getUserByEmail")
    /\ \/ /\ Reject(p, StorageError)
          /\ UNCHANGED user
       \/ /\ user' = [user EXCEPT ![p] = getUserByEmail(users, req[p].body.email[1])]
          /\ IF getUserByEmail(users, req[p].body.email[1]) = NoUser
             THEN Forward(p, errorResponder("UNPROCESSABLE_ENTITY",
                                            "Invalid email or password"))
             ELSE Await(p, "passwordMatched")
    /\ UNCHANGED <<users, nextId, serial, registered, req, hashedPassword>>

\* Variant: the test of passwordIsValid is inverted.
loginUser_passwordMatched_Inverted(p) ==
    /\ At(p, "loginUser", "passwordMatched")
    /\ \/ Reject(p, HashError)
       \/ IF passwordMatched(req[p].body.password[1], user[p].password)
          THEN Forward(p, errorResponder("UNPROCESSABLE_ENTITY",
                                         "Invalid email or password"))
          ELSE Respond(p, 200, "Login successful", <<>>)
    /\ UNCHANGED <<users, nextId, serial, registered, Locals>>

loginUser_passwordMatched(p) ==
    /\ At(p, "loginUser", "passwordMatched")
    /\ \/ Reject(p, HashError)
       \/ IF ~passwordMatched(req[p].body.password[1], user[p].password)
          THEN Forward(p, errorResponder("UNPROCESSABLE_ENTITY",
                                         "Invalid email or password"))
          ELSE Respond(p, 200, "Login successful", <<>>)
    /\ UNCHANGED <<users, nextId, serial, registered, Locals>>

\* ------------------------------------------------------------- changePassword
\* Variant: changePassword implemented: it stores the body's password.
changePassword_Implemented(p, id, body) ==
    /\ Enter(p, "changePassword", id, body, NoQuery)
    /\ IF id \in DOMAIN users
       THEN /\ users' = [users EXCEPT ![id].password = hashPassword("", "s1")]
            /\ Respond(p, 200, "Password changed successfully", <<>>)
       ELSE /\ Forward(p, errorResponder("UNPROCESSABLE_ENTITY", "User not found"))
            /\ UNCHANGED users
    /\ UNCHANGED <<nextId, serial, registered>>

changePassword(p, id, body) ==
    /\ Enter(p, "changePassword", id, body, NoQuery)
    /\ Forward(p, errorResponder("NOT_IMPLEMENTED", ""))
    /\ UNCHANGED <<users, nextId, serial, registered>>

\* ------------------------------------------------------------- deleteUser
deleteUser(p, id) ==
    /\ Enter(p, "deleteUser", id, NoBody, NoQuery)
    /\ Await(p, "deleteUser")
    /\ UNCHANGED <<users, nextId, serial, registered>>

\* Variant: the success flag of the deletion is not looked at.
deleteUser_persist_FlagIgnored(p) ==
    /\ At(p, "deleteUser", "deleteUser")
    /\ \/ /\ Forward(p, StorageError)
          /\ UNCHANGED <<users, registered>>
       \/ /\ users' = Removed(users, req[p].id)
          /\ registered' = Removed(registered, req[p].id)
          /\ Respond(p, 200, "User deleted successfully", <<>>)
    /\ UNCHANGED <<nextId, serial, Locals>>

deleteUser_persist(p) ==
    /\ At(p, "deleteUser", "deleteUser")
    /\ \/ /\ Forward(p, StorageError)
          /\ UNCHANGED <<users, registered>>
       \/ IF req[p].id \in DOMAIN users
          THEN /\ users' = Removed(users, req[p].id)
               /\ registered' = Removed(registered, req[p].id)
               /\ Respond(p, 200, "User deleted successfully", <<>>)
          ELSE /\ Forward(p, errorResponder("UNPROCESSABLE_ENTITY",
                                            "Failed to delete user"))
               /\ UNCHANGED <<users, registered>>
    /\ UNCHANGED <<nextId, serial, Locals>>

\* ------------------------------------------------------------- specification
CreateBodies ==
    [email : EmailFields, password : PasswordFields,
     full_name : NameFields, confirm_password : ConfirmFields]

UpdateBodies ==
    [email : EmailFields, password : {Undefined},
     full_name : NameFields, confirm_password : {Undefined}]

LoginBodies ==
    [email : EmailFields, password : LoginPasswordFields,
     full_name : {Undefined}, confirm_password : {Undefined}]

Queries == [offset : QueryFields, limit : QueryFields]

Start ==
    /\ users = <<>>
    /\ nextId = 1
    /\ pc = [p \in Procs |-> "idle"]
    /\ req = [p \in Procs |-> NoRequest]
    /\ user = [p \in Procs |-> NoUser]
    /\ hashedPassword = [p \in Procs |-> NoHash]
    /\ outcome = [p \in Procs |-> NoOutcome]
    /\ registered = <<>>
    /\ lastDeleted = 0

\* Requests are handled one at a time.
Init == Start /\ serial = TRUE

\* Requests are handled concurrently.
ConcInit == Start /\ serial = FALSE

Next ==
    \E p \in Procs :
        \/ \E q \in Queries : getUsers(p, q)
        \/ getUsers_resume(p)
        \/ \E id \in Ids : getUser(p, id)
        \/ getUser_resume(p)
        \/ \E b \in CreateBodies : createUser(p, b)
        \/ createUser_emailExists(p)
        \/ createUser_hashPassword(p)
        \/ createUser_persist(p)
        \/ \E id \in Ids, b \in UpdateBodies : updateUser(p, id, b)
        \/ updateUser_getUser(p)
        \/ updateUser_emailExists(p)
        \/ updateUser_persist(p)
        \/ \E b \in LoginBodies : loginUser(p, b)
        \/ loginUser_getUserByEmail(p)
        \/ loginUser_passwordMatched(p)
        \/ \E id \in Ids, b \in UpdateBodies : changePassword(p, id, b)
        \/ \E id \in Ids : deleteUser(p, id)
        \/ deleteUser_persist(p)

\* The requests of the concurrent workload: well-formed registrations and
\* updates, whose storage steps interleave.
ValidCreateBodies ==
    {b \in CreateBodies :
        /\ ~Falsy(b.email) /\ ~Falsy(b.full_name)
        /\ b.password = Some("longpass") /\ b.confirm_password = b.password}

ValidUpdateBodies ==
    {b \in UpdateBodies : ~Falsy(b.email) /\ ~Falsy(b.full_name)}

ConcNext ==
    \E p \in Procs :
        \/ \E b \in ValidCreateBodies : createUser(p, b)
        \/ createUser_emailExists(p)
        \/ createUser_hashPassword(p)
        \/ createUser_persist(p)
        \/ \E id \in Ids, b \in ValidUpdateBodies : updateUser(p, id, b)
        \/ updateUser_getUser(p)
        \/ updateUser_emailExists(p)
        \/ updateUser_persist(p)

Spec == Init /\ [][Next]_vars

ConcSpec == ConcInit /\ [][ConcNext]_vars


\* ------------------------------------------------------------- vocabulary of the properties
Done(p, op) == pc[p] = "done" /\ req[p].op = op

\* The step ends an invocation of handler op at worker p.
Finishes(p, op) ==
    /\ pc'[p] = "done"
    /\ req'[p].op = op
    /\ <<pc[p], req[p], outcome[p]>> # <<pc'[p], req'[p], outcome'[p]>>

Forwarded(o, kind, message) ==
    o = [NoOutcome EXCEPT !.nexts = 1, !.error = errorResponder(kind, message)]

Responded(o, status) ==
    /\ o.responses = 1 /\ o.nexts = 0 /\ o.rejected = 0
    /\ o.status = status /\ o.error = NoError

\* An error that is none of the controller's kinds: a storage or hashing failure.
Unclassified(o) == o.error \in {StorageError, HashError}

NonEmpty(f) == f # Undefined /\ f # Some("")

LongEnough(f) == f # Undefined /\ Len(f[1]) >= MinPasswordLength

\* The first check of the registration contract that a request fails against
\* a store (0: none fails).
FirstFailing(b, store) ==
    IF ~NonEmpty(b.email) THEN 1
    ELSE IF ~NonEmpty(b.full_name) THEN 2
    ELSE IF \E i \in DOMAIN store : store[i].email = b.email[1] THEN 3
    ELSE IF ~LongEnough(b.password) THEN 4
    ELSE IF b.password # b.confirm_password THEN 5
    ELSE 0

\* The errors each check raises.  The length check raises its validation error;
\* evaluating it on an absent password is settled by C2.
ErrorsOf(k, b) ==
    CASE k = 1 -> {errorResponder("VALIDATION_ERROR", "Email is required")}
      [] k = 2 -> {errorResponder("VALIDATION_ERROR", "Full name is required")}
      [] k = 3 -> {errorResponder("EMAIL_ALREADY_TAKEN", "Email already exists")}
      [] k = 4 -> {errorResponder("VALIDATION_ERROR",
                                  "Password must be at least 8 characters long")}
                  \cup (IF b.password = Undefined THEN {TypeError} ELSE {})
      [] k = 5 -> {errorResponder("VALIDATION_ERROR",
                                  "Password and confirm password do not match")}
      [] OTHER -> {errorResponder("UNPROCESSABLE_ENTITY", "Failed to create user")}

C2_ShortPasswordIsValidationError ==
    \A p \in Procs :
        (/\ Done(p, "createUser")
         /\ ~Unclassified(outcome[p])
         /\ NonEmpty(req[p].body.email) /\ NonEmpty(req[p].body.full_name)
         /\ ~\E i \in DOMAIN users : users[i].email = req[p].body.email[1]
         /\ ~LongEnough(req[p].body.password))
        => /\ outcome[p].nexts = 1
           /\ outcome[p].error.kind = "VALIDATION_ERROR"

\* ------------------------------------------------------------- C3
\* C3: with requests handled one at a time, no two stored users share an email.
C3_EmailsUnique ==
    \A i, j \in DOMAIN users : i # j => users[i].email # users[j].email

\* Two users are stored and a request for the other user's email was refused.
C3_Witness ==
    /\ Cardinality(DOMAIN users) = 2
    /\ \E p \in Procs :
        /\ Done(p, "updateUser")
        /\ Forwarded(outcome[p], "EMAIL_ALREADY_TAKEN", "Email already exists")

\* ------------------------------------------------------------- C4
\* C4: with requests handled concurrently, the write of a createUser or
\* updateUser request that passed its emailExists check is not checked again:
\* when the store accepts it while another user already holds the email, two
\* stored users share the email and the request reports success.
C4_WriteAfterCheckDuplicates ==
    [][\A p \in Procs :
        LET e == req[p].body.email[1]
            others == HoldersOf(users, e) \ (IF req[p].op = "updateUser"
                                             THEN {req[p].id} ELSE {})
        IN  (/\ pc[p] \in {"createUser", "updateUser"}
             /\ pc[p] = req[p].op
             /\ others # {}
             /\ outcome'[p].responses = 1)
            => /\ Cardinality(HoldersOf(users', e)) >= 2
               /\ outcome'[p].status = IF req[p].op = "createUser" THEN 201 ELSE 200]_vars

\* Two registrations for the same email both reported 201 and both are stored.
C4_Witness ==
    \E p, q \in Procs :
        /\ p # q
        /\ Done(p, "createUser") /\ Done(q, "createUser")
        /\ req[p].body.email = req[q].body.email
        /\ Responded(outcome[p], 201) /\ Responded(outcome[q], 201)
        /\ Cardinality(HoldersOf(users, req[p].body.email[1])) = 2

\* ------------------------------------------------------------- C5
\* C5: with requests handled one at a time and no storage or hashing failure,
\* a loginUser request with the current email of a stored user and the password
\* that user was registered with ends with 200, whatever updateUser requests
\* were made since; and no request changes a stored password hash.
C5_LoginAfterRegistration ==
    [][/\ \A p \in Procs :
            (/\ Finishes(p, "loginUser")
             /\ outcome'[p].rejected = 0
             /\ \E i \in DOMAIN users :
                    /\ Some(users[i].email) = req'[p].body.email
                    /\ Some(registered[i].password) = req'[p].body.password)
            => Responded(outcome'[p], 200)
       /\ \A i \in DOMAIN users \cap DOMAIN users' :
            users'[i].password = users[i].password]_vars

\* A user whose email has been changed by updateUser since registration logged
\* in with the new email and the registration password.
C5_Witness ==
    \E p \in Procs, i \in DOMAIN users :
        /\ Done(p, "loginUser")
        /\ Responded(outcome[p], 200)
        /\ req[p].body.email = Some(users[i].email)
        /\ req[p].body.password = Some(registered[i].password)
        /\ users[i].email # registered[i].email

\* ------------------------------------------------------------- C6
\* C6: with requests handled one at a time, a loginUser request with non-empty
\* email and password that names an unregistered email, and one that names a
\* registered email with a wrong password, have the same outcome:
\* UNPROCESSABLE_ENTITY "Invalid email or password" passed to next.
C6_LoginFailuresIndistinguishable ==
    \A p \in Procs :
        (/\ Done(p, "loginUser")
         /\ outcome[p].rejected = 0
         /\ NonEmpty(req[p].body.email) /\ NonEmpty(req[p].body.password)
         /\ \/ HoldersOf(users, req[p].body.email[1]) = {}
            \/ \E i \in HoldersOf(users, req[p].body.email[1]) :
                    registered[i].password # req[p].body.password[1])
        => Forwarded(outcome[p], "UNPROCESSABLE_ENTITY", "Invalid email or password")

\* A login with a registered email and a wrong password was refused.
C6_Witness ==
    \E p \in Procs :
        /\ Done(p, "loginUser")
        /\ NonEmpty(req[p].body.email) /\ NonEmpty(req[p].body.password)
        /\ \E i \in HoldersOf(users, req[p].body.email[1]) :
                registered[i].password # req[p].body.password[1]
        /\ Forwarded(outcome[p], "UNPROCESSABLE_ENTITY", "Invalid email or password")

\* ------------------------------------------------------------- C7
\* C7: with requests handled one at a time and no storage failure, updateUser
\* for an id that is not stored ends with UNPROCESSABLE_ENTITY "User not found"
\* whatever the body; for a stored user and non-empty email and full_name it
\* ends with EMAIL_ALREADY_TAKEN and an unchanged store when another user holds
\* the email, and with 200 when the email is the user's own.
C7_UpdateEmailRule ==
    [][\A p \in Procs :
        (Finishes(p, "updateUser") /\ ~Unclassified(outcome'[p])) =>
            LET id == req'[p].id
                b == req'[p].body
                o == outcome'[p]
            IN  /\ id \notin DOMAIN users =>
                    /\ Forwarded(o, "UNPROCESSABLE_ENTITY", "User not found")
                    /\ users' = users
                /\ (id \in DOMAIN users /\ NonEmpty(b.email) /\ NonEmpty(b.full_name)) =>
                    /\ HoldersOf(users, b.email[1]) \ {id} # {} =>
                          /\ Forwarded(o, "EMAIL_ALREADY_TAKEN", "Email already exists")
                          /\ users' = users
                    /\ users[id].email = b.email[1] => Responded(o, 200)]_vars

\* An update of a user to the email it already had succeeded while another user
\* was stored.
C7_Witness ==
    \E p \in Procs :
        /\ Done(p, "updateUser")
        /\ Responded(outcome[p], 200)
        /\ user[p].email = req[p].body.email[1]
        /\ Cardinality(DOMAIN users) = 2

\* ------------------------------------------------------------- C8
\* C8: every finished handler invocation has sent exactly one response or
\* passed exactly one error to next.
C8_OneResponseOrOneError ==
    \A p \in Procs :
        pc[p] = "done" =>
            /\ outcome[p].responses + outcome[p].nexts = 1
            /\ outcome[p].rejected = 0

\* ------------------------------------------------------------- C9
\* C9: with requests handled one at a time and no storage failure, deleteUser
\* of a stored user ends with 200 and removes the user, and a deleteUser of the
\* same id that follows it with no other request in between ends with
\* UNPROCESSABLE_ENTITY and leaves the store unchanged.
C9_DeleteTwice ==
    [][\A p \in Procs :
        (Finishes(p, "deleteUser") /\ ~Unclassified(outcome'[p])) =>
            LET id == req'[p].id
                o == outcome'[p]
            IN  /\ id \in DOMAIN users =>
                    /\ Responded(o, 200)
                    /\ users' = Removed(users, id)
                    /\ id \notin DOMAIN users'
                /\ id = lastDeleted =>
                    /\ Forwarded(o, "UNPROCESSABLE_ENTITY", "Failed to delete user")
                    /\ users' = users]_vars

\* The deletion of a user was followed at once by a second deletion of the same
\* id, which was refused.
C9_Witness ==
    \E p \in Procs :
        /\ Done(p, "deleteUser")
        /\ req[p].id = lastDeleted
        /\ Forwarded(outcome[p], "UNPROCESSABLE_ENTITY", "Failed to delete user")

\* ------------------------------------------------------------- C10
\* C10: every changePassword invocation passes NOT_IMPLEMENTED to next and
\* leaves the user store, every stored password hash included, unchanged.
C10_ChangePasswordNotImplemented ==
    [][\A p \in Procs :
        Finishes(p, "changePassword") =>
            /\ outcome'[p].responses = 0 /\ outcome'[p].nexts = 1
            /\ outcome'[p].rejected = 0
            /\ outcome'[p].error.kind = "NOT_IMPLEMENTED"
            /\ users' = users]_vars

\* changePassword was refused for the id of a stored user.
C10_Witness ==
    \E p \in Procs :
        /\ Done(p, "changePassword")
        /\ req[p].id \in DOMAIN users
        /\ outcome[p].error.kind = "NOT_IMPLEMENTED"

=============================================================================
